---- MODULE Spec2Model ----
(***************************************************************************)
(* A model of scripts/compare_gas_vs_analist.py: the reconciliation of the  *)
(* CSV export (analistData) with the JSON export (tmp_gas_data) of the four *)
(* tables Subjects, Categories, StudyTasks and StudySessions.               *)
(*                                                                          *)
(* Python values are records tagged by their type:                          *)
(*   [t |-> "bool", b], [t |-> "none"], [t |-> "int", n],                   *)
(*   [t |-> "str", s]      s is the sequence of the characters of the text  *)
(*   [t |-> "list", items] items is a sequence of values                    *)
(*   [t |-> "dict", d]     d is a function from keys to values              *)
(***************************************************************************)
EXTENDS Integers, Sequences, FiniteSets, TLC

VARIABLES
    pc,             \* position of the running code
    tbl,            \* the script: index in Tables of the table being processed
    name,           \* compare_sets: the table name argument
    csv_rows,       \* the rows read from the CSV file (argument of compare_sets)
    gas_rows,       \* the list taken from the JSON file (argument of compare_sets)
    field_map,      \* compare_sets: sequence of <<out_key, src_key>>
    ignore_fields,  \* compare_sets: set of ignored out keys
    report_lines,   \* the module-level accumulator of report lines
    stdout,         \* what print() has written, one entry per call
    doc,            \* the parsed JSON document load_json_first_array looks at
    val,            \* the argument of norm_bool / norm_str
    ret             \* the value returned by the function under call

vars == <<pc, tbl, name, csv_rows, gas_rows, field_map, ignore_fields,
          report_lines, stdout, doc, val, ret>>

----------------------------------------------------------------------------
(* Python values *)

PyNone == [t |-> "none"]
PyBool(b) == [t |-> "bool", b |-> b]
PyInt(n) == [t |-> "int", n |-> n]
PyStr(s) == [t |-> "str", s |-> s]
PyList(items) == [t |-> "list", items |-> items]
PyDict(d) == [t |-> "dict", d |-> d]

EmptyText == PyStr(<<>>)

\* Python truthiness, as any() applies it to a row's values
Truthy(v) ==
    CASE v.t = "bool" -> v.b
      [] v.t = "none" -> FALSE
      [] v.t = "int"  -> v.n # 0
      [] v.t = "str"  -> Len(v.s) > 0
      [] v.t = "list" -> Len(v.items) > 0
      [] v.t = "dict" -> DOMAIN v.d # {}

----------------------------------------------------------------------------
(* Text: str(), str.strip(), str.lower() *)

UpperChars == <<"A","B","C","D","E","F","G","H","I","J","K","L","M",
                "N","O","P","Q","R","S","T","U","V","W","X","Y","Z">>
LowerChars == <<"a","b","c","d","e","f","g","h","i","j","k","l","m",
                "n","o","p","q","r","s","t","u","v","w","x","y","z">>

\* the ASCII characters str.strip() removes
Whitespace == {" ", "\t", "\n", "\r", "\f"}

LowerChar(c) ==
    IF \E i \in 1..Len(UpperChars) : UpperChars[i] = c
    THEN LowerChars[CHOOSE i \in 1..Len(UpperChars) : UpperChars[i] = c]
    ELSE c

UpperChar(c) ==
    IF \E i \in 1..Len(LowerChars) : LowerChars[i] = c
    THEN UpperChars[CHOOSE i \in 1..Len(LowerChars) : LowerChars[i] = c]
    ELSE c

Lower(s) == [i \in 1..Len(s) |-> LowerChar(s[i])]

Upper(s) == [i \in 1..Len(s) |-> UpperChar(s[i])]

RECURSIVE LStrip(_)
LStrip(s) ==
    IF Len(s) > 0 /\ Head(s) \in Whitespace THEN LStrip(Tail(s)) ELSE s

RECURSIVE RStrip(_)
RStrip(s) ==
    IF Len(s) > 0 /\ s[Len(s)] \in Whitespace
    THEN RStrip(SubSeq(s, 1, Len(s) - 1))
    ELSE s

Strip(s) == RStrip(LStrip(s))

Digits == <<"0","1","2","3","4","5","6","7","8","9">>

RECURSIVE NatText(_)
NatText(n) ==
    IF n < 10 THEN <<Digits[n + 1]>>
    ELSE NatText(n \div 10) \o <<Digits[(n % 10) + 1]>>

IntText(n) == IF n < 0 THEN <<"-">> \o NatText(0 - n) ELSE NatText(n)

RECURSIVE Repr(_)
RECURSIVE ReprItems(_)
\* repr() of a list's elements (texts without quotes or backslashes)
ReprItems(items) ==
    IF Len(items) = 0 THEN <<>>
    ELSE IF Len(items) = 1 THEN Repr(items[1])
    ELSE Repr(items[1]) \o <<",", " ">> \o ReprItems(Tail(items))

Repr(v) ==
    CASE v.t = "str"  -> <<"'">> \o v.s \o <<"'">>
      [] v.t = "bool" -> IF v.b THEN <<"T","r","u","e">> ELSE <<"F","a","l","s","e">>
      [] v.t = "none" -> <<"N","o","n","e">>
      [] v.t = "int"  -> IntText(v.n)
      [] v.t = "list" -> <<"[">> \o ReprItems(v.items) \o <<"]">>

\* str(v), the text of a value
Str(v) == IF v.t = "str" THEN v.s ELSE Repr(v)

----------------------------------------------------------------------------
(* The normalizers *)

TrueTexts == {<<"t","r","u","e">>, <<"y","e","s">>, <<"1">>}
FalseTexts == {<<"f","a","l","s","e">>, <<"n","o">>, <<"0">>, <<>>}

\* norm_bool without lower(): the texts are recognized in lower case only
norm_bool_CaseSensitive(v) ==
    IF v.t = "bool" THEN v
    ELSE IF v.t = "none" THEN PyBool(FALSE)
    ELSE LET s == Strip(Str(v))
         IN  IF s \in TrueTexts THEN PyBool(TRUE)
             ELSE IF s \in FalseTexts THEN PyBool(FALSE)
             ELSE PyStr(s)

norm_bool(v) ==
    IF v.t = "bool" THEN v
    ELSE IF v.t = "none" THEN PyBool(FALSE)
    ELSE LET s == Lower(Strip(Str(v)))
         IN  IF s \in TrueTexts THEN PyBool(TRUE)
             ELSE IF s \in FalseTexts THEN PyBool(FALSE)
             ELSE PyStr(s)

norm_str(v) ==
    IF v.t = "none" THEN EmptyText ELSE PyStr(Str(v))

----------------------------------------------------------------------------
(* The loader *)

LoadKeys == <<"data", "tasks", "sessions", "subjects", "categories">>

\* the loader stopping at the first key that is present, list or not
load_json_first_array_FirstPresent(data) ==
    LET present == {i \in 1..Len(LoadKeys) :
                       data.t = "dict" /\ LoadKeys[i] \in DOMAIN data.d}
        first == CHOOSE i \in present : \A j \in present : i <= j
    IN  IF present # {}
        THEN IF data.d[LoadKeys[first]].t = "list"
             THEN data.d[LoadKeys[first]].items
             ELSE <<>>
        ELSE IF data.t = "list" THEN data.items
        ELSE <<>>

\* the list taken from the parsed document data, as a sequence
load_json_first_array(data) ==
    LET hits == {i \in 1..Len(LoadKeys) :
                    /\ data.t = "dict"
                    /\ LoadKeys[i] \in DOMAIN data.d
                    /\ data.d[LoadKeys[i]].t = "list"}
    IN  IF hits # {}
        THEN data.d[LoadKeys[CHOOSE i \in hits : \A j \in hits : i <= j]].items
        ELSE IF data.t = "list" THEN data.items
        ELSE <<>>

----------------------------------------------------------------------------
(* The four tables and their field maps (out_key, src_key) *)

Tables == <<"Subjects", "Categories", "StudyTasks", "StudySessions">>

subjects_field_map ==
    << <<"subject_name", "subject_name">>, <<"color", "color">>,
       <<"icon", "icon">>, <<"active", "active">> >>

categories_field_map ==
    << <<"category_name", "category_name">>, <<"subject_name", "subject_name">>,
       <<"difficulty", "difficulty">>, <<"active", "active">> >>

study_tasks_field_map ==
    << <<"task_id", "task_id">>, <<"task_name", "task_name">>,
       <<"description", "description">>, <<"categories", "categories">>,
       <<"correctly_completed", "correctly_completed">>,
       <<"start_time", "start_time">>, <<"end_time", "end_time">>,
       <<"W szkole", "W szkole">>, <<"subject", "subject">>,
       <<"session_id", "session_id">> >>

study_sessions_field_map ==
    << <<"session_id", "session_id">>, <<"start_time", "start_time">>,
       <<"end_time", "end_time">>, <<"duration_minutes", "duration_minutes">>,
       <<"total_tasks", "total_tasks">>, <<"correct_tasks", "correct_tasks">>,
       <<"accuracy_percentage", "accuracy_percentage">>, <<"notes", "notes">> >>

FieldMapOf(T) ==
    CASE T = "Subjects"      -> subjects_field_map
      [] T = "Categories"    -> categories_field_map
      [] T = "StudyTasks"    -> study_tasks_field_map
      [] T = "StudySessions" -> study_sessions_field_map

----------------------------------------------------------------------------
(* compare_sets *)

SampleLimit == 3

Min(a, b) == IF a < b THEN a ELSE b

Range(q) == {q[i] : i \in 1..Len(q)}

\* row.get(key, '')
Get(row, key) == IF key \in DOMAIN row.d THEN row.d[key] ELSE EmptyText

\* any(r.values())
AnyValues(row) == \E k \in DOMAIN row.d : Truthy(row.d[k])

\* boolean normalization of the flag of StudyTasks as well
NormField_MoreBooleans(out_key, v) ==
    IF out_key \in {"active", "correctly_completed"} THEN norm_bool(v) ELSE norm_str(v)

NormField(out_key, v) ==
    IF out_key \in {"active"} THEN norm_bool(v) ELSE norm_str(v)

row_to_tuple(row, mapping, is_csv, ignore) ==
    LET kept == SelectSeq(mapping, LAMBDA m : m[1] \notin ignore)
    IN  [i \in 1..Len(kept) |->
            <<kept[i][1],
              NormField(kept[i][1],
                        IF is_csv THEN Get(row, kept[i][2]) ELSE Get(row, kept[i][2]))>>]

\* the CSV set without the filter on empty rows
CsvSet_NoBlankFilter(rows, mapping, ignore) ==
    { row_to_tuple(rows[i], mapping, TRUE, ignore) : i \in 1..Len(rows) }

CsvSet(rows, mapping, ignore) ==
    { row_to_tuple(rows[i], mapping, TRUE, ignore) :
        i \in {j \in 1..Len(rows) : AnyValues(rows[j])} }

GasSet(rows, mapping, ignore) ==
    { row_to_tuple(rows[i], mapping, FALSE, ignore) :
        i \in {j \in 1..Len(rows) : rows[j].t = "dict" /\ AnyValues(rows[j])} }


HeaderLine(nm) == [kind |-> "header", name |-> nm]
CountLine(c, g) == [kind |-> "count", csv |-> c, gas |-> g]
MatchLine == [kind |-> "match"]
OnlyLine(side, n, sample) == [kind |-> "only", side |-> side, n |-> n, sample |-> sample]
BlankLine == [kind |-> "blank"]

\* the sample without the [:3]
Samples_Unbounded(S) ==
    LET k == Cardinality(S)
    IN  { q \in [1..k -> S] : \A i, j \in 1..k : i # j => q[i] # q[j] }

\* list(S)[:3]: the first three elements in the iteration order of the set,
\* which the language does not fix: any sequence of min(3, |S|) distinct
\* elements of S
Samples(S) ==
    LET k == Min(SampleLimit, Cardinality(S))
    IN  { q \in [1..k -> S] : \A i, j \in 1..k : i # j => q[i] # q[j] }

\* the count line giving the numbers of rows instead of the sizes of the sets
CompareLines_CountsRows(nm, crows, grows, mapping, ignore) ==
    LET csv_set == CsvSet(crows, mapping, ignore)
        gas_set == GasSet(grows, mapping, ignore)
        only_in_csv == csv_set \ gas_set
        only_in_gas == gas_set \ csv_set
    IN  { <<HeaderLine(nm), CountLine(Len(crows), Len(grows))>>
          \o (IF only_in_csv = {} /\ only_in_gas = {}
              THEN <<MatchLine>>
              ELSE (IF only_in_csv # {}
                    THEN <<OnlyLine("CSV", Cardinality(only_in_csv), sc)>>
                    ELSE <<>>)
                   \o
                   (IF only_in_gas # {}
                    THEN <<OnlyLine("GAS", Cardinality(only_in_gas), sg)>>
                    ELSE <<>>))
          \o <<BlankLine>> :
          sc \in Samples(only_in_csv), sg \in Samples(only_in_gas) }

\* the lines one call of compare_sets appends, for every iteration order of
\* the two difference sets
CompareLines(nm, crows, grows, mapping, ignore) ==
    LET csv_set == CsvSet(crows, mapping, ignore)
        gas_set == GasSet(grows, mapping, ignore)
        only_in_csv == csv_set \ gas_set
        only_in_gas == gas_set \ csv_set
    IN  { <<HeaderLine(nm), CountLine(Cardinality(csv_set), Cardinality(gas_set))>>
          \o (IF only_in_csv = {} /\ only_in_gas = {}
              THEN <<MatchLine>>
              ELSE (IF only_in_csv # {}
                    THEN <<OnlyLine("CSV", Cardinality(only_in_csv), sc)>>
                    ELSE <<>>)
                   \o
                   (IF only_in_gas # {}
                    THEN <<OnlyLine("GAS", Cardinality(only_in_gas), sg)>>
                    ELSE <<>>))
          \o <<BlankLine>> :
          sc \in Samples(only_in_csv), sg \in Samples(only_in_gas) }

compare_sets(nm, crows, grows, mapping, ignore) ==
    \E lines \in CompareLines(nm, crows, grows, mapping, ignore) :
        report_lines' = report_lines \o lines

----------------------------------------------------------------------------
(* Inputs of one call of compare_sets *)

MaxCsvRows == 2
MaxGasRows == 1

TableNames == {Tables[i] : i \in 1..Len(Tables)}

SeqsUpTo(S, n) == UNION {[1..k -> S] : k \in 0..n}

SrcKeys(T) == {FieldMapOf(T)[i][2] : i \in 1..Len(FieldMapOf(T))}

\* the header of the table's CSV file: the compared columns, and for
\* StudySessions the extra date column
CsvColumns(T) == SrcKeys(T) \cup (IF T = "StudySessions" THEN {"date"} ELSE {})

\* the column that identifies a row, and a column holding a flag or a number
KeyCol(T) == FieldMapOf(T)[1][2]
FlagCol(T) ==
    CASE T = "Subjects"      -> "active"
      [] T = "Categories"    -> "active"
      [] T = "StudyTasks"    -> "correctly_completed"
      [] T = "StudySessions" -> "total_tasks"

\* a row over the columns cols: k in the key column, f in the flag column,
\* x in the date column, the empty text elsewhere
MkRow(T, cols, k, f, x) ==
    PyDict([c \in cols |->
              IF c = KeyCol(T) THEN k
              ELSE IF c = FlagCol(T) THEN f
              ELSE IF c = "date" THEN x
              ELSE EmptyText])

MkCsvRow(T, k, f, x) == MkRow(T, CsvColumns(T), k, f, x)
MkGasRow(T, k, f) == MkRow(T, SrcKeys(T), k, f, EmptyText)

TxtA == PyStr(<<"M","a","t","h">>)
TxtId == PyStr(<<"7">>)
TxtDate == PyStr(<<"2","0","2","5">>)
TxtYes == PyStr(<<"Y","e","s">>)
TxtTRUE == PyStr(<<"T","R","U","E">>)
TxtTrue == PyStr(<<"T","r","u","e">>)
Txttrue == PyStr(<<"t","r","u","e">>)
Txtfalse == PyStr(<<"f","a","l","s","e">>)
TxtMaybe == PyStr(<<" ","M","a","y","b","e">>)
Txtmaybe == PyStr(<<"m","a","y","b","e">>)
Txt0 == PyStr(<<"0">>)
Txt3 == PyStr(<<"3">>)
TxtJunk == PyStr(<<"j","u","n","k">>)

CsvPool(T) ==
    CASE T = "Subjects" ->
           { MkCsvRow(T, EmptyText, EmptyText, EmptyText),
             MkCsvRow(T, EmptyText, Txtfalse, EmptyText),
             MkCsvRow(T, TxtA, TxtYes, EmptyText),
             MkCsvRow(T, TxtA, TxtTRUE, EmptyText) }
      [] T = "Categories" ->
           { MkCsvRow(T, PyNone, PyNone, EmptyText),
             MkCsvRow(T, EmptyText, TxtYes, EmptyText),
             MkCsvRow(T, TxtA, EmptyText, EmptyText),
             MkCsvRow(T, TxtA, TxtMaybe, EmptyText) }
      [] T = "StudyTasks" ->
           { MkCsvRow(T, EmptyText, EmptyText, EmptyText),
             MkCsvRow(T, TxtId, Txttrue, EmptyText),
             MkCsvRow(T, TxtId, TxtTrue, EmptyText),
             MkCsvRow(T, TxtA, TxtTrue, EmptyText) }
      [] T = "StudySessions" ->
           { MkCsvRow(T, EmptyText, EmptyText, EmptyText),
             MkCsvRow(T, EmptyText, EmptyText, TxtDate),
             MkCsvRow(T, EmptyText, Txt0, EmptyText),
             MkCsvRow(T, TxtId, Txt0, TxtDate) }

GasPool(T) ==
    CASE T = "Subjects" ->
           { MkGasRow(T, EmptyText, PyBool(FALSE)),
             MkGasRow(T, TxtA, PyBool(TRUE)),
             MkGasRow(T, TxtA, PyBool(FALSE)),
             TxtJunk }
      [] T = "Categories" ->
           { PyDict([c \in {"active"} |-> PyBool(TRUE)]),
             MkGasRow(T, TxtA, PyBool(TRUE)),
             MkGasRow(T, TxtA, PyNone),
             MkGasRow(T, TxtA, Txtmaybe) }
      [] T = "StudyTasks" ->
           { MkGasRow(T, PyNone, PyBool(FALSE)),
             MkGasRow(T, PyInt(7), PyBool(TRUE)),
             MkGasRow(T, TxtId, Txttrue),
             PyList(<<TxtId>>) }
      [] T = "StudySessions" ->
           { MkGasRow(T, EmptyText, PyInt(0)),
             PyDict(<<>>),
             MkGasRow(T, PyInt(7), PyInt(0)),
             MkGasRow(T, TxtId, Txt3) }

\* the program never passes ignore_fields; the function accepts it
IgnoreChoices(T) == IF T = "Categories" THEN {{}, {"active"}} ELSE {{}}

InitCompare ==
    /\ pc = "call"
    /\ tbl = 0
    /\ name \in TableNames
    /\ csv_rows \in SeqsUpTo(CsvPool(name), MaxCsvRows)
    /\ gas_rows \in SeqsUpTo(GasPool(name), MaxGasRows)
    /\ field_map = FieldMapOf(name)
    /\ ignore_fields \in IgnoreChoices(name)
    /\ report_lines = <<>>
    /\ stdout = <<>>
    /\ doc = PyNone
    /\ val = PyNone
    /\ ret = PyNone

CallCompareSets ==
    /\ pc = "call"
    /\ compare_sets(name, csv_rows, gas_rows, field_map, ignore_fields)
    /\ pc' = "returned"
    /\ UNCHANGED <<tbl, name, csv_rows, gas_rows, field_map, ignore_fields,
                   stdout, doc, val, ret>>

NextCompare == CallCompareSets

SpecCompare == InitCompare /\ [][NextCompare]_vars

----------------------------------------------------------------------------
(* Inputs of compare_sets with enough distinct rows for the samples: the    *)
(* rows 1..MaxReportRows of a table, each present or absent on either side  *)

MaxReportRows == 4

\* a text and a JSON value of the flag column that normalize alike
CsvFlag(T) ==
    CASE T \in {"Subjects", "Categories"} -> TxtYes
      [] T = "StudyTasks"                 -> TxtTrue
      [] T = "StudySessions"              -> Txt3
GasFlag(T) ==
    CASE T \in {"Subjects", "Categories"} -> PyBool(TRUE)
      [] T = "StudyTasks"                 -> PyBool(TRUE)
      [] T = "StudySessions"              -> PyInt(3)

ReportCsvRow(T, i) == MkCsvRow(T, PyStr(IntText(i)), CsvFlag(T), TxtDate)
\* JSON row i is the row of CSV row i + 1
ReportGasRow(T, i) == MkGasRow(T, PyInt(i + 1), GasFlag(T))

\* the rows numbered by I, up to n, in increasing order
RECURSIVE ReportCsvRows(_, _, _)
ReportCsvRows(T, I, n) ==
    IF n = 0 THEN <<>>
    ELSE ReportCsvRows(T, I, n - 1) \o (IF n \in I THEN <<ReportCsvRow(T, n)>> ELSE <<>>)

RECURSIVE ReportGasRows(_, _, _)
ReportGasRows(T, I, n) ==
    IF n = 0 THEN <<>>
    ELSE ReportGasRows(T, I, n - 1) \o (IF n \in I THEN <<ReportGasRow(T, n)>> ELSE <<>>)

InitReport ==
    /\ pc = "call"
    /\ tbl = 0
    /\ name \in TableNames
    /\ \E I \in SUBSET (1..MaxReportRows) :
           csv_rows = ReportCsvRows(name, I, MaxReportRows)
    /\ \E I \in SUBSET (1..MaxReportRows) :
           gas_rows = ReportGasRows(name, I, MaxReportRows)
    /\ field_map = FieldMapOf(name)
    /\ ignore_fields = {}
    /\ report_lines = <<>>
    /\ stdout = <<>>
    /\ doc = PyNone
    /\ val = PyNone
    /\ ret = PyNone

SpecReport == InitReport /\ [][NextCompare]_vars

----------------------------------------------------------------------------
(* One call of load_json_first_array (SpecLoad) *)

DocKeys == Range(LoadKeys) \cup {"foo"}

\* the list stored under key k: its one element tells the lists apart
ListUnder(k) == PyList(<<PyStr(<<k>>)>>)

\* a JSON object whose keys are K, with a list under the keys of L and a
\* text, a number, an object or null under the others
DocObject(K, L) ==
    PyDict([k \in K |->
              IF k \in L THEN ListUnder(k)
              ELSE CASE k = "data"     -> Txttrue
                     [] k = "tasks"    -> PyInt(3)
                     [] k = "sessions" -> PyNone
                     [] k = "subjects" -> PyDict([c \in {"data"} |-> ListUnder(k)])
                     [] OTHER          -> PyBool(TRUE)])

Docs ==
    {DocObject(K, L) : K \in SUBSET DocKeys, L \in SUBSET DocKeys}
    \cup {PyList(<<>>), PyList(<<TxtA, PyInt(7)>>), ListUnder("root")}
    \cup {PyNone, PyInt(7), Txttrue, PyBool(TRUE)}

InitLoad ==
    /\ pc = "call"
    /\ tbl = 0
    /\ doc \in Docs
    /\ name = ""
    /\ csv_rows = <<>>
    /\ gas_rows = <<>>
    /\ field_map = <<>>
    /\ ignore_fields = {}
    /\ report_lines = <<>>
    /\ stdout = <<>>
    /\ val = PyNone
    /\ ret = PyNone

CallLoadJson ==
    /\ pc = "call"
    /\ ret' = PyList(load_json_first_array(doc))
    /\ pc' = "returned"
    /\ UNCHANGED <<tbl, name, csv_rows, gas_rows, field_map, ignore_fields,
                   report_lines, stdout, doc, val>>

NextLoad == CallLoadJson

SpecLoad == InitLoad /\ [][NextLoad]_vars

----------------------------------------------------------------------------
(* Calls of norm_bool, norm_str and row_to_tuple on one CSV row and one     *)
(* JSON row (SpecNorm)                                                      *)

Capitalize(s) == IF Len(s) = 0 THEN s ELSE <<UpperChar(s[1])>> \o Tail(s)

\* a text in lower case, in upper case and capitalized
Cases(s) == {s, Upper(s), Capitalize(s)}

\* a text bare and with white space around it
Pads(s) == {s, <<" ">> \o s, <<"\t">> \o s \o <<" ", "\n">>}

OtherTexts == {<<"m","a","y","b","e">>, <<"m","a","t","h">>, <<"t","r","u","e","1">>}

\* the texts of a CSV cell
CellTexts ==
    UNION {Pads(c) : c \in UNION {Cases(b) : b \in TrueTexts \cup FalseTexts \cup OtherTexts}}

CsvCells == {PyStr(s) : s \in CellTexts} \cup {PyNone}

\* the JSON values of the flag column
JsonFlags ==
    {PyBool(TRUE), PyBool(FALSE), PyNone, PyInt(1), PyInt(0), TxtTrue, TxtYes, EmptyText}

\* the JSON row without its flag column
Sparse(T, row) == PyDict([c \in DOMAIN row.d \ {FlagCol(T)} |-> row.d[c]])

InitNorm ==
    /\ pc = "call"
    /\ tbl = 0
    /\ name \in TableNames
    /\ \E c \in CsvCells : csv_rows = <<MkCsvRow(name, TxtId, c, TxtDate)>>
    /\ \E k \in {TxtId, PyInt(7), TxtA}, g \in JsonFlags :
           \/ gas_rows = <<MkGasRow(name, k, g)>>
           \/ g = PyNone /\ gas_rows = <<Sparse(name, MkGasRow(name, k, g))>>
    /\ field_map = FieldMapOf(name)
    /\ ignore_fields = {}
    /\ report_lines = <<>>
    /\ stdout = <<>>
    /\ doc = PyNone
    /\ val = PyNone
    /\ ret = PyNone

\* the values of the flag column in the two rows
FlagValues ==
    {Get(csv_rows[1], FlagCol(name)), Get(gas_rows[1], FlagCol(name))}

CallNormBool ==
    /\ pc = "call"
    /\ \E v \in FlagValues : val' = v /\ ret' = norm_bool(v)
    /\ pc' = "norm_bool"
    /\ UNCHANGED <<tbl, name, csv_rows, gas_rows, field_map, ignore_fields,
                   report_lines, stdout, doc>>

CallNormStr ==
    /\ pc = "call"
    /\ \E v \in FlagValues : val' = v /\ ret' = norm_str(v)
    /\ pc' = "norm_str"
    /\ UNCHANGED <<tbl, name, csv_rows, gas_rows, field_map, ignore_fields,
                   report_lines, stdout, doc>>

\* row_to_tuple on the CSV row and on the JSON row
CallRowToTuple ==
    /\ pc = "call"
    /\ ret' = <<row_to_tuple(csv_rows[1], field_map, TRUE, ignore_fields),
                row_to_tuple(gas_rows[1], field_map, FALSE, ignore_fields)>>
    /\ pc' = "row_to_tuple"
    /\ UNCHANGED <<tbl, name, csv_rows, gas_rows, field_map, ignore_fields,
                   report_lines, stdout, doc, val>>

NextNorm == CallNormBool \/ CallNormStr \/ CallRowToTuple

SpecNorm == InitNorm /\ [][NextNorm]_vars

----------------------------------------------------------------------------
(* The script: the four tables in turn, then the report (Spec) *)

\* what the files can hold when they are there and well-formed; a missing
\* or malformed file raises, which ends the run at pc = "error"
CsvFiles(T) ==
    { <<>>,
      <<ReportCsvRow(T, 1)>>,
      <<ReportCsvRow(T, 2), MkCsvRow(T, EmptyText, EmptyText, EmptyText)>> }

JsonFiles(T) ==
    { PyDict([k \in {"data"} |-> PyList(<<ReportGasRow(T, 1)>>)]),
      PyList(<<>>),
      PyDict([k \in {"foo"} |-> PyList(<<ReportGasRow(T, 1)>>)]) }

Init ==
    /\ pc = "read_csv"
    /\ tbl = 1
    /\ name = ""
    /\ csv_rows = <<>>
    /\ gas_rows = <<>>
    /\ field_map = <<>>
    /\ ignore_fields = {}
    /\ report_lines = <<>>
    /\ stdout = <<>>
    /\ doc = PyNone
    /\ val = PyNone
    /\ ret = PyNone

\* X_csv = read_csv(ANALIST / 'Matura - X.csv')
ReadCsvStep ==
    /\ pc = "read_csv"
    /\ \/ \E f \in CsvFiles(Tables[tbl]) : pc' = "load_json" /\ csv_rows' = f
       \/ pc' = "error" /\ UNCHANGED csv_rows
    /\ UNCHANGED <<tbl, name, gas_rows, field_map, ignore_fields,
                   report_lines, stdout, doc, val, ret>>

\* X_gas = load_json_first_array(GAS / 'x.json')
LoadJsonStep ==
    /\ pc = "load_json"
    /\ \/ \E f \in JsonFiles(Tables[tbl]) :
              pc' = "compare" /\ doc' = f /\ gas_rows' = load_json_first_array(f)
       \/ pc' = "error" /\ UNCHANGED <<gas_rows, doc>>
    /\ UNCHANGED <<tbl, name, csv_rows, field_map, ignore_fields,
                   report_lines, stdout, val, ret>>

\* the comparison printing the lines as soon as it has appended them
CompareStep_PrintsEach ==
    /\ pc = "compare"
    /\ name' = Tables[tbl]
    /\ field_map' = FieldMapOf(Tables[tbl])
    /\ ignore_fields' = {}
    /\ compare_sets(Tables[tbl], csv_rows, gas_rows, FieldMapOf(Tables[tbl]), {})
    /\ stdout' = Append(stdout, report_lines')
    /\ IF tbl < Len(Tables)
       THEN pc' = "read_csv" /\ tbl' = tbl + 1
       ELSE pc' = "print" /\ tbl' = tbl
    /\ UNCHANGED <<csv_rows, gas_rows, doc, val, ret>>

\* compare_sets('X', X_csv, X_gas, field_map)
CompareStep ==
    /\ pc = "compare"
    /\ name' = Tables[tbl]
    /\ field_map' = FieldMapOf(Tables[tbl])
    /\ ignore_fields' = {}
    /\ compare_sets(Tables[tbl], csv_rows, gas_rows, FieldMapOf(Tables[tbl]), {})
    /\ IF tbl < Len(Tables)
       THEN pc' = "read_csv" /\ tbl' = tbl + 1
       ELSE pc' = "print" /\ tbl' = tbl
    /\ UNCHANGED <<csv_rows, gas_rows, stdout, doc, val, ret>>

\* print('\n'.join(report_lines))
PrintStep ==
    /\ pc = "print"
    /\ stdout' = Append(stdout, report_lines)
    /\ pc' = "done"
    /\ UNCHANGED <<tbl, name, csv_rows, gas_rows, field_map, ignore_fields,
                   report_lines, doc, val, ret>>

Next == ReadCsvStep \/ LoadJsonStep \/ CompareStep \/ PrintStep

Spec == Init /\ [][Next]_vars

----------------------------------------------------------------------------
(* Properties of one call of compare_sets (SpecCompare, SpecReport) *)

\* the lines without the samples, whose order the language does not fix
Unsample(lines) ==
    [i \in 1..Len(lines) |->
        IF lines[i].kind = "only"
        THEN [kind |-> "only", side |-> lines[i].side, n |-> lines[i].n]
        ELSE lines[i]]

Outcomes(nm, crows, grows, mapping, ignore) ==
    {Unsample(ls) : ls \in CompareLines(nm, crows, grows, mapping, ignore)}

TupleOfCsv(r) == row_to_tuple(r, field_map, TRUE, ignore_fields)
TupleOfGas(r) == row_to_tuple(r, field_map, FALSE, ignore_fields)

\* every CSV row has a JSON row with equal compared fields after
\* normalization, and vice versa
IdenticalInputs ==
    /\ \A j \in 1..Len(gas_rows) : gas_rows[j].t = "dict"
    /\ \A i \in 1..Len(csv_rows) : \E j \in 1..Len(gas_rows) :
           TupleOfCsv(csv_rows[i]) = TupleOfGas(gas_rows[j])
    /\ \A j \in 1..Len(gas_rows) : \E i \in 1..Len(csv_rows) :
           TupleOfCsv(csv_rows[i]) = TupleOfGas(gas_rows[j])

\* C1: for identical CSV and JSON inputs compare_sets appends the MATCH line
\* and reports equal counts, also when a row's only non-empty compared value
\* is a false or zero value
C1_IdenticalInputsMatch ==
    (pc = "returned" /\ IdenticalInputs) =>
        /\ report_lines[3] = MatchLine
        /\ report_lines[2].csv = report_lines[2].gas

\* the empty and falsy values, and the rows whose every field is one
FalsyValues ==
    {EmptyText, PyNone, PyBool(FALSE), PyInt(0), PyList(<<>>), PyDict(<<>>)}
IsBlankRow(r) == r.t = "dict" /\ \A k \in DOMAIN r.d : r.d[k] \in FalsyValues

\* the blank rows that are added
FalsyCsvValues == {EmptyText, PyNone}
FalsyGasValues == {PyNone, PyBool(FALSE), PyInt(0), PyList(<<>>)}
BlankCsvRows(T) == {MkCsvRow(T, k, f, EmptyText) : k, f \in FalsyCsvValues}
BlankGasRows(T) ==
    {MkGasRow(T, EmptyText, f) : f \in FalsyGasValues}
    \cup {MkGasRow(T, PyNone, PyNone), PyDict(<<>>)}

\* q with a blank row in front, with a blank row at the end, and with a
\* blank row at the end twice
WithBlankRows(q, blanks) ==
    {<<b>> \o q : b \in blanks} \cup {q \o <<b>> : b \in blanks}
    \cup {q \o <<b, b>> : b \in blanks}

WithoutBlankRows(q) == SelectSeq(q, LAMBDA r : ~IsBlankRow(r))

\* C3: blank rows are excluded on both sides: adding blank rows to the CSV
\* rows or to the JSON rows, or dropping the blank rows that are there,
\* leaves the appended lines unchanged, and the counts are those of the
\* non-blank rows
C3_BlankRowsExcluded ==
    pc = "returned" =>
        LET here == CompareLines(name, csv_rows, gas_rows, field_map, ignore_fields)
            csvNB == WithoutBlankRows(csv_rows)
            gasNB == WithoutBlankRows(gas_rows)
        IN  /\ report_lines \in here
            /\ \A c2 \in WithBlankRows(csv_rows, BlankCsvRows(name)) :
                   CompareLines(name, c2, gas_rows, field_map, ignore_fields) = here
            /\ \A g2 \in WithBlankRows(gas_rows, BlankGasRows(name)) :
                   CompareLines(name, csv_rows, g2, field_map, ignore_fields) = here
            /\ CompareLines(name, csvNB, gasNB, field_map, ignore_fields) = here
            /\ report_lines[2].csv = Cardinality({TupleOfCsv(r) : r \in Range(csvNB)})
            /\ report_lines[2].gas =
                 Cardinality({TupleOfGas(r) : r \in {x \in Range(gasNB) : x.t = "dict"}})

C3_Witness ==
    /\ pc = "returned"
    /\ \E i \in 1..Len(csv_rows) : IsBlankRow(csv_rows[i])
    /\ \E i \in 1..Len(csv_rows) : AnyValues(csv_rows[i])
    /\ \E j \in 1..Len(gas_rows) : IsBlankRow(gas_rows[j])
    /\ report_lines[2] = CountLine(1, 0)

\* the source keys of the fields that take part in the comparison
ComparedKeys ==
    {field_map[i][2] : i \in {j \in 1..Len(field_map) : field_map[j][1] \notin ignore_fields}}

SameCompared(r1, r2) ==
    IF r1.t = "dict" /\ r2.t = "dict"
    THEN /\ DOMAIN r1.d = DOMAIN r2.d
         /\ \A c \in DOMAIN r1.d \cap ComparedKeys : r1.d[c] = r2.d[c]
    ELSE r1 = r2

\* the inputs that differ from q only in columns that are not compared
UncomparedVariants(q, pool) ==
    {q2 \in [1..Len(q) -> pool] : \A i \in 1..Len(q) : SameCompared(q[i], q2[i])}

\* C4: inputs that differ only in the values of unmapped or ignored columns
\* give the same counts and the same MATCH / 'Only in' lines
C4_UnmappedColumnsIgnored ==
    pc = "returned" =>
        \A c2 \in UncomparedVariants(csv_rows, CsvPool(name)) :
        \A g2 \in UncomparedVariants(gas_rows, GasPool(name)) :
            report_lines \in CompareLines(name, c2, g2, field_map, ignore_fields)

\* the inputs with the same rows as q: the rows of q in any order, and q
\* with one of its rows repeated in front or at the end
Rearranged(q) ==
    {q2 \in [1..Len(q) -> Range(q)] : Range(q2) = Range(q)}
    \cup {q \o <<q[i]>> : i \in 1..Len(q)}
    \cup {<<q[i], q[i]>> \o q : i \in 1..Len(q)}

\* C8: the counts are the numbers of distinct normalized tuples, and
\* repeating or reordering rows changes neither the counts nor the
\* MATCH / 'Only in' outcome nor the sizes of the differences
C8_DuplicatesCollapse ==
    pc = "returned" =>
        LET here == Unsample(report_lines)
        IN  /\ report_lines[2].csv =
                 Cardinality({TupleOfCsv(r) : r \in {x \in Range(csv_rows) : AnyValues(x)}})
            /\ report_lines[2].gas =
                 Cardinality({TupleOfGas(r) :
                     r \in {x \in Range(gas_rows) : x.t = "dict" /\ AnyValues(x)}})
            /\ \A c2 \in Rearranged(csv_rows) :
                   Outcomes(name, c2, gas_rows, field_map, ignore_fields) = {here}
            /\ \A g2 \in Rearranged(gas_rows) :
                   Outcomes(name, csv_rows, g2, field_map, ignore_fields) = {here}

C8_Witness ==
    /\ pc = "returned"
    /\ Len(csv_rows) = 2 /\ csv_rows[1] # csv_rows[2]
    /\ TupleOfCsv(csv_rows[1]) = TupleOfCsv(csv_rows[2])
    /\ report_lines = <<HeaderLine(name), CountLine(1, 1), MatchLine, BlankLine>>

\* C6: the lines of one call: header, counts, then the MATCH line exactly
\* when the two sets are equal, else an 'Only in CSV' and/or an 'Only in
\* GAS' line for each non-empty difference, then a blank line; an 'Only in'
\* line gives the size of the difference and min(3, size) distinct tuples
\* of it; one non-blank Subjects CSV row and no JSON row give count 1,0 and
\* an 'Only in CSV' line with the row's tuple
C6_ReportStructure ==
    pc = "returned" =>
        LET L == report_lines
            cs == {TupleOfCsv(r) : r \in {x \in Range(csv_rows) : AnyValues(x)}}
            gs == {TupleOfGas(r) :
                     r \in {x \in Range(gas_rows) : x.t = "dict" /\ AnyValues(x)}}
            oc == cs \ gs
            og == gs \ cs
            OnlyIdx(side) == {i \in 1..Len(L) : L[i].kind = "only" /\ L[i].side = side}
            GoodOnly(i, diff) ==
                /\ L[i].n = Cardinality(diff)
                /\ Len(L[i].sample) = Min(3, Cardinality(diff))
                /\ \A a \in 1..Len(L[i].sample) : L[i].sample[a] \in diff
                /\ \A a, b \in 1..Len(L[i].sample) :
                       a # b => L[i].sample[a] # L[i].sample[b]
        IN  /\ Len(L) = 3 + (IF cs = gs THEN 1
                             ELSE (IF oc # {} THEN 1 ELSE 0) + (IF og # {} THEN 1 ELSE 0))
            /\ L[1] = HeaderLine(name)
            /\ L[2] = CountLine(Cardinality(cs), Cardinality(gs))
            /\ L[Len(L)] = BlankLine
            /\ \A i \in 1..(Len(L) - 1) : L[i].kind # "blank"
            /\ (cs = gs) <=> (L[3] = MatchLine)
            /\ \A i \in 4..Len(L) : L[i].kind # "match"
            /\ Cardinality(OnlyIdx("CSV")) = (IF oc # {} THEN 1 ELSE 0)
            /\ Cardinality(OnlyIdx("GAS")) = (IF og # {} THEN 1 ELSE 0)
            /\ \A i \in OnlyIdx("CSV") : i = 3 /\ GoodOnly(i, oc)
            /\ \A i \in OnlyIdx("GAS") : i = Len(L) - 1 /\ GoodOnly(i, og)
            /\ (name = "Subjects" /\ Len(csv_rows) = 1 /\ AnyValues(csv_rows[1])
                  /\ gas_rows = <<>>)
               => L = <<HeaderLine(name), CountLine(1, 0),
                        OnlyLine("CSV", 1, <<TupleOfCsv(csv_rows[1])>>), BlankLine>>

C6_Witness ==
    /\ pc = "returned"
    /\ Len(report_lines) = 5
    /\ report_lines[3].kind = "only" /\ report_lines[3].n = 4
    /\ Len(report_lines[3].sample) = 3
    /\ report_lines[4].kind = "only" /\ report_lines[4].n = 1

----------------------------------------------------------------------------
(* Properties of load_json_first_array (SpecLoad) *)

HasList(d, k) == d.t = "dict" /\ k \in DOMAIN d.d /\ d.d[k].t = "list"

FirstListByPriority(d) ==
    IF HasList(d, "data") THEN d.d["data"].items
    ELSE IF HasList(d, "tasks") THEN d.d["tasks"].items
    ELSE IF HasList(d, "sessions") THEN d.d["sessions"].items
    ELSE IF HasList(d, "subjects") THEN d.d["subjects"].items
    ELSE IF HasList(d, "categories") THEN d.d["categories"].items
    ELSE IF d.t = "list" THEN d.items
    ELSE <<>>

\* C5: load_json_first_array returns the value of the first key in the order
\* data, tasks, sessions, subjects, categories that is present with a list
\* value, skipping present keys with other values; a list root itself; and
\* the empty list in every other case
C5_FirstListByPriority ==
    pc = "returned" => ret = PyList(FirstListByPriority(doc))

C5_Witness ==
    /\ pc = "returned"
    /\ doc.t = "dict"
    /\ DOMAIN doc.d = {"data", "sessions", "subjects", "foo"}
    /\ doc.d["data"].t = "str"
    /\ doc.d["foo"].t = "list"
    /\ ret = ListUnder("sessions")

----------------------------------------------------------------------------
(* Properties of the normalizers (SpecNorm) *)

CsvFlagValue == Get(csv_rows[1], FlagCol(name))
GasFlagValue == Get(gas_rows[1], FlagCol(name))
FlagIndex == CHOOSE i \in 1..Len(field_map) : field_map[i][2] = FlagCol(name)

\* C2: for a text that is none of true/yes/1/false/no/0/empty, norm_bool
\* returns the text it was given, unchanged
C2_UnknownTextUnchanged ==
    (/\ pc = "norm_bool"
     /\ val.t = "str"
     /\ Lower(Strip(val.s)) \notin TrueTexts \cup FalseTexts)
    => ret = val

\* the cells that read true/yes/1, and false/no/0/empty, in any letter case
\* and with white space around them
TrueCells ==
    {PyStr(p) : p \in UNION {Pads(c) : c \in UNION {Cases(b) : b \in TrueTexts}}}
FalseCells ==
    {PyStr(p) : p \in UNION {Pads(c) : c \in UNION {Cases(b) : b \in FalseTexts}}}

\* the two rows agree on every compared field but active
AgreeButActive ==
    \A i \in 1..Len(field_map) :
        field_map[i][1] # "active" =>
            norm_str(Get(csv_rows[1], field_map[i][2]))
                = norm_str(Get(gas_rows[1], field_map[i][2]))

\* C7: norm_bool maps booleans to themselves, None to false, the true texts
\* to true and the false texts to false; a CSV row with a true text in
\* active and a JSON row with active = true that agree on the other
\* compared fields give equal tuples, and so do a false text and JSON false
\* or null
C7_BooleanEquivalence ==
    /\ pc = "norm_bool" =>
          /\ val.t = "bool" => ret = val
          /\ val = PyNone => ret = PyBool(FALSE)
          /\ val \in TrueCells => ret = PyBool(TRUE)
          /\ val \in FalseCells => ret = PyBool(FALSE)
    /\ (pc = "row_to_tuple" /\ FlagCol(name) = "active" /\ AgreeButActive) =>
          /\ (CsvFlagValue \in TrueCells /\ GasFlagValue = PyBool(TRUE))
                => ret[1] = ret[2]
          /\ (CsvFlagValue \in FalseCells /\ "active" \in DOMAIN gas_rows[1].d
                /\ GasFlagValue \in {PyBool(FALSE), PyNone})
                => ret[1] = ret[2]

C7_Witness ==
    /\ pc = "row_to_tuple"
    /\ name = "Subjects"
    /\ CsvFlagValue = PyStr(<<"Y","E","S">>)
    /\ GasFlagValue = PyBool(TRUE)
    /\ gas_rows[1].d["subject_name"] = PyInt(7)
    /\ ret[1] = ret[2]

\* C10: only the field named active is normalized as a boolean; every other
\* compared field is a text, the empty text for a missing key, None and the
\* empty text, and "True" for a JSON true, which differs from a CSV cell
\* that reads true, yes or 1
C10_OnlyActiveIsBoolean ==
    pc = "row_to_tuple" =>
        /\ \A side \in {1, 2} : \A i \in 1..Len(field_map) :
              LET key == field_map[i][1]
                  row == IF side = 1 THEN csv_rows[1] ELSE gas_rows[1]
                  e == ret[side][i]
              IN  /\ e[1] = key
                  /\ key # "active" =>
                        /\ e[2].t = "str"
                        /\ key \notin DOMAIN row.d => e[2] = EmptyText
                        /\ (key \in DOMAIN row.d /\ row.d[key] \in {PyNone, EmptyText})
                              => e[2] = EmptyText
                        /\ (key \in DOMAIN row.d /\ row.d[key] = PyBool(TRUE))
                              => e[2] = TxtTrue
                  /\ (key = "active" /\ key \in DOMAIN row.d
                        /\ row.d[key] \in TrueCells \cup {PyBool(TRUE)})
                        => e[2] = PyBool(TRUE)
        /\ (/\ FlagCol(name) # "active"
            /\ GasFlagValue = PyBool(TRUE)
            /\ CsvFlagValue \in {Txttrue, PyStr(<<"y","e","s">>), PyStr(<<"1">>)})
           => ret[1][FlagIndex] # ret[2][FlagIndex]

C10_Witness ==
    /\ pc = "row_to_tuple"
    /\ name = "StudyTasks"
    /\ GasFlagValue = PyBool(TRUE)
    /\ CsvFlagValue = Txttrue
    /\ ret[2][FlagIndex] = <<"correctly_completed", TxtTrue>>
    /\ ret[1][FlagIndex] = <<"correctly_completed", Txttrue>>

----------------------------------------------------------------------------
(* Properties of the script (Spec) *)

Headers(lines) == SelectSeq(lines, LAMBDA l : l.kind = "header")

\* the tables compared so far
Compared ==
    IF pc \in {"print", "done"} THEN Len(Tables) ELSE tbl - 1

C9_State ==
    /\ pc # "done" => stdout = <<>>
    /\ pc = "done" => stdout = <<report_lines>>
    /\ Headers(report_lines) = [i \in 1..Compared |-> HeaderLine(Tables[i])]

C9_Step ==
    /\ pc = "read_csv" => (pc' = "load_json" /\ tbl' = tbl) \/ pc' = "error"
    /\ pc = "load_json" => (pc' = "compare" /\ tbl' = tbl) \/ pc' = "error"
    /\ pc = "compare" =>
          \/ tbl < Len(Tables) /\ pc' = "read_csv" /\ tbl' = tbl + 1
          \/ tbl = Len(Tables) /\ pc' = "print" /\ tbl' = tbl
    /\ pc = "print" => pc' = "done"
    /\ pc \notin {"error", "done"}
    /\ stdout' # stdout => pc = "print" /\ Len(Headers(report_lines)) = Len(Tables)

\* C9: the loads and comparisons run table by table in the order Subjects,
\* Categories, StudyTasks, StudySessions (CSV load, JSON load, compare); the
\* report is printed once, after the fourth comparison; a failed load ends
\* the run with nothing printed
C9_AllOrNothing == [](C9_State) /\ [][C9_Step]_vars

C9_Witness ==
    /\ pc = "error"
    /\ tbl = 3
    /\ Len(Headers(report_lines)) = 2
    /\ \E i \in 1..Len(report_lines) : report_lines[i].kind = "only"
    /\ stdout = <<>>

====
